---- MODULE Spec2Model ----
(***************************************************************************)
(* A model of three pieces of the clearml client SDK:                      *)
(*   - _patched_call and its recursion guard (binding/frameworks);         *)
(*   - WeightsFileHandler: the callback registries, restore_weights_file   *)
(*     and create_output_model with the lookup lock and the path cache;    *)
(*   - utilities/lowlevel/threads.py: _lowlevel_async_raise, kill_thread   *)
(*     and threadpool_waited_join.                                         *)
(* Each piece has its own specification over the shared variables; the     *)
(* variables of the other pieces stay at their initial values.             *)
(***************************************************************************)
EXTENDS Integers, Sequences, FiniteSets, TLC

VARIABLES
    recursion_guard,    \* _recursion_guard: the idents that are keys of the dict
    stack,              \* per thread: the active _inner_patch frames, outermost first
    exc,                \* per thread: an exception is propagating
    model_pre_callbacks,    \* WeightsFileHandler._model_pre_callbacks, in dict order
    model_post_callbacks,   \* WeightsFileHandler._model_post_callbacks, in dict order
    api_ret,            \* the last add_/remove_ callback call and what it returned
    model_store_lookup_lock,    \* WeightsFileHandler._model_store_lookup_lock: its holder
    local_model_to_id_uri,      \* Model._local_model_to_id_uri: path -> (id, url)
    call,               \* per thread: its restore_weights_file / create_output_model call
    active,             \* threading._active: thread id -> Thread object
    tstate,             \* the interpreter's thread states, per thread id
    status,             \* what the joined thread, the pool and the waitable are doing
    tcall,              \* the kill_thread / threadpool_waited_join call in progress
    api_version,        \* the API version of the server the Session talks to
    offline,            \* task.is_offline()
    offline_data,       \* the "properties" that were saved to the offline dir
    sent,               \* how many requests task.session.send was given
    reloads,            \* how many times task.reload() was called
    hp_call,            \* the last HyperParams call: arguments, request, outcome
    sys_modules,        \* sys.modules: the catboost module, when it was imported
    patched,            \* PatchCatBoostModelIO.__patched
    wraps,              \* per catboost method: how many _patched_call wrappers it has
    current_task,       \* PatchCatBoostModelIO._current_task
    on_import,          \* _patch_model_io is a post-import hook of catboost
    cb_call             \* the update_current_task / _patch_model_io call in progress

patchVars == <<recursion_guard, stack, exc>>

regVars == <<model_pre_callbacks, model_post_callbacks, api_ret>>

wfhVars == <<model_store_lookup_lock, local_model_to_id_uri, call>>

thrVars == <<active, tstate, status, tcall>>

hpVars == <<api_version, offline, offline_data, sent, reloads, hp_call>>

cbVars == <<sys_modules, patched, wraps, current_task, on_import, cb_call>>

vars == <<recursion_guard, stack, exc,
          model_pre_callbacks, model_post_callbacks, api_ret,
          model_store_lookup_lock, local_model_to_id_uri, call,
          active, tstate, status, tcall,
          api_version, offline, offline_data, sent, reloads, hp_call,
          sys_modules, patched, wraps, current_task, on_import, cb_call>>

----------------------------------------------------------------------------
(* Shared universe                                                         *)

Threads == {"t1", "t2"}

NoneV == "None"

\* the state of each piece when the module is imported
PatchIdle ==
    /\ recursion_guard = {}
    /\ stack = [t \in Threads |-> <<>>]
    /\ exc = [t \in Threads |-> FALSE]

NoRet == [op |-> "none", arg |-> NoneV, val |-> NoneV]

RegistryIdle ==
    /\ model_pre_callbacks = <<>>
    /\ model_post_callbacks = <<>>
    /\ api_ret = NoRet

\* a model object: None, or an InputModel / OutputModel with its id and url
NoneModel == [id |-> NoneV, url |-> NoneV]

\* a ModelInfo, or None where a callback returned None
NoneInfo ==
    [kind |-> "None", model |-> NoneModel,
     local_model_path |-> NoneV, local_model_id |-> NoneV]

NoCall ==
    [op |-> "idle", pc |-> "idle", filepath |-> NoneV,
     model_info |-> NoneInfo, model |-> NoneModel, raised |-> FALSE,
     pre_none |-> FALSE, did |-> {},
     result |-> NoneV]

\* no cache entry: an empty dict
EmptyDict == [k \in {} |-> <<NoneV, NoneV>>]

WfhIdle ==
    /\ model_store_lookup_lock = NoneV
    /\ local_model_to_id_uri = EmptyDict
    /\ call = [t \in Threads |-> NoCall]

\* the thread ids the system hands out
MaxTid == 2

Tids == 1..MaxTid

\* no thread state has this id; pending counts those with an exception set
NoThreadState == [n |-> 0, pending |-> 0]

\* no call of threads.py in progress; the fields are the locals of the call
NoOp ==
    [fn |-> "idle", pc |-> "idle", obj |-> NoneV, timeout |-> 0,
     wait |-> FALSE, elapsed |-> 0, done_signal |-> FALSE, done_at |-> -1,
     found |-> FALSE, target_tid |-> 0, ret |-> 0, raise_result |-> FALSE,
     result |-> FALSE, raised |-> FALSE]

\* "T" is a Thread not yet started, "P" a pool at work, "W" the waitable
\* thread of threadpool_waited_join, which does not exist yet
ThrIdle ==
    /\ active = [i \in {} |-> NoneV]
    /\ tstate = [i \in Tids |-> NoThreadState]
    /\ status = [T |-> "new", P |-> "running", W |-> "none"]
    /\ tcall = NoOp

\* a str is the sequence of its pieces, so that "_" + value is a
\* concatenation; the empty one stands for "" and for None, which the code
\* of HyperParams tells apart nowhere
Empty == <<>>

\* no HyperParams call was made yet
NoHpCall == [fn |-> "none"]

\* the methods of catboost that _patch_model_io wraps
CatBoostMethods ==
    {"CatBoost.save_model", "CatBoost.load_model", "CatBoost.fit",
     "CatBoostClassifier.fit", "CatBoostRegressor.fit", "CatBoostRanker.fit"}

\* no update_current_task or _patch_model_io call is running
NoCbCall == [fn |-> "none", pc |-> "idle", raised |-> FALSE, i |-> 1]

\* the class as it is defined: catboost is not imported, nothing is patched
CbIdle ==
    /\ sys_modules = NoneV
    /\ patched = FALSE
    /\ wraps = [m \in CatBoostMethods |-> 0]
    /\ current_task = NoneV
    /\ on_import = FALSE
    /\ cb_call = NoCbCall

\* a task that is online, on a server of API version 2.9, with no call made
HpIdle ==
    /\ api_version = <<2, 9>>
    /\ offline = FALSE
    /\ offline_data = <<>>
    /\ sent = 0
    /\ reloads = 0
    /\ hp_call = NoHpCall

----------------------------------------------------------------------------
(* WeightsFileHandler: the callback registries                             *)

\* the user functions that get registered; what one does when it is called
\* is chosen at the call (CallbackOutcomes)
CallbackFns == {"f1", "f2"}

\* randint(0, 1 << 31) draws from 0..2^31; the model draws from 0..MaxHandle
MaxHandle == 2

Handles == 0..MaxHandle

\* a registry is a dict handle -> function; the sequence keeps the order
\* in which a dict iterates (insertion order)
Keys(target) == {target[i].h : i \in DOMAIN target}

Values(target) == {target[i].f : i \in DOMAIN target}

\* line 108: the key of the first entry whose value is func
existing_handle(func, target) ==
    target[CHOOSE i \in DOMAIN target :
              /\ target[i].f = func
              /\ \A j \in DOMAIN target : target[j].f = func => i <= j].h

\* lines 110-113: h is redrawn until it is not a key of target (mutant: the
\* first draw is taken)
fresh_handle_unchecked(h, target) == TRUE

fresh_handle(h, target) == h \notin Keys(target)

\* line 107, "if func in target.values()" (mutant: the test is left out)
already_added_never(func, target) == FALSE

already_added(func, target) == func \in Values(target)

\* line 115, "target[h] = func": a new key goes last, a key that is there
\* keeps its place and gets the new value
dict_set(target, h, func) ==
    IF h \in Keys(target)
    THEN [i \in DOMAIN target |->
            IF target[i].h = h THEN [h |-> h, f |-> func] ELSE target[i]]
    ELSE Append(target, [h |-> h, f |-> func])

\* lines 106-116: the registry and the handle _add_callback leaves, h being
\* the draw that ended the loop
add_callback(func, target, h) ==
    IF already_added(func, target)
    THEN [target |-> target, ret |-> existing_handle(func, target)]
    ELSE [target |-> dict_set(target, h, func), ret |-> h]

SelectSeq2(target, handle) ==
    LET keep(e) == e.h # handle IN SelectSeq(target, keep)

\* line 120, "if handle in target" (mutant: the test always passes)
handle_in_always(handle, target) == TRUE

handle_in(handle, target) == handle \in Keys(target)

\* lines 119-123 (mutant of the pop: the whole registry is cleared)
remove_callback_clear(handle, target) ==
    IF handle_in(handle, target)
    THEN [target |-> <<>>, ret |-> TRUE]
    ELSE [target |-> target, ret |-> FALSE]

remove_callback(handle, target) ==
    IF handle_in(handle, target)
    THEN [target |-> SelectSeq2(target, handle), ret |-> TRUE]
    ELSE [target |-> target, ret |-> FALSE]

\* line 150
add_pre_callback(func) ==
    \E h \in Handles :
        /\ already_added(func, model_pre_callbacks)
              \/ fresh_handle(h, model_pre_callbacks)
        /\ LET r == add_callback(func, model_pre_callbacks, h) IN
              /\ model_pre_callbacks' = r.target
              /\ api_ret' = [op |-> "add_pre", arg |-> func, val |-> r.ret]
        /\ UNCHANGED <<model_post_callbacks, patchVars, wfhVars, thrVars, hpVars, cbVars>>

\* line 172
add_post_callback(func) ==
    \E h \in Handles :
        /\ already_added(func, model_post_callbacks)
              \/ fresh_handle(h, model_post_callbacks)
        /\ LET r == add_callback(func, model_post_callbacks, h) IN
              /\ model_post_callbacks' = r.target
              /\ api_ret' = [op |-> "add_post", arg |-> func, val |-> r.ret]
        /\ UNCHANGED <<model_pre_callbacks, patchVars, wfhVars, thrVars, hpVars, cbVars>>

\* line 183
remove_pre_callback(handle) ==
    /\ LET r == remove_callback(handle, model_pre_callbacks) IN
          /\ model_pre_callbacks' = r.target
          /\ api_ret' = [op |-> "remove_pre", arg |-> handle, val |-> r.ret]
    /\ UNCHANGED <<model_post_callbacks, patchVars, wfhVars, thrVars, hpVars, cbVars>>

\* line 194
remove_post_callback(handle) ==
    /\ LET r == remove_callback(handle, model_post_callbacks) IN
          /\ model_post_callbacks' = r.target
          /\ api_ret' = [op |-> "remove_post", arg |-> handle, val |-> r.ret]
    /\ UNCHANGED <<model_pre_callbacks, patchVars, wfhVars, thrVars, hpVars, cbVars>>

RegistryInit ==
    /\ ThrIdle
    /\ HpIdle
    /\ CbIdle
    /\ RegistryIdle
    /\ PatchIdle
    /\ WfhIdle

RegistryNext ==
    \/ \E func \in CallbackFns : add_pre_callback(func)
    \/ \E func \in CallbackFns : add_post_callback(func)
    \/ \E handle \in Handles : remove_pre_callback(handle)
    \/ \E handle \in Handles : remove_post_callback(handle)

RegistrySpec == RegistryInit /\ [][RegistryNext]_vars

----------------------------------------------------------------------------
(* _patched_call (binding/frameworks/__init__.py)                          *)

\* the library functions catboost_bind wraps with _patched_call
WrappedFns == {"save_model", "load_model", "fit"}

\* how deep calls nest in the model
MaxDepth == 3

\* threading.get_ident(): one ident per live thread (mutant: every thread
\* sees the same key)
get_ident_shared(t) == "t1"

get_ident(t) == t

\* line 29, "if ident in _recursion_guard" (mutant: the wrapper without the
\* guard, _patched_call_no_recursion_guard)
guard_hit_never(ident, guard) == FALSE

guard_hit(ident, guard) == ident \in guard

\* line 39, "_recursion_guard.pop(ident)" with KeyError ignored (mutant: the
\* wrapper without the finally clause)
guard_pop_never(ident, guard) == guard

guard_pop(ident, guard) == guard \ {ident}

Top(t) == stack[t][Len(stack[t])]

SetTopPc(t, pc) == [stack EXCEPT ![t][Len(stack[t])].pc = pc]

Pop(t) == [stack EXCEPT ![t] = SubSeq(stack[t], 1, Len(stack[t]) - 1)]

\* the places of an _inner_patch frame where the body of original_fn or of
\* patched_fn is running
InBody(fr) == fr.pc \in {"original_fn", "patched_fn"}

\* A thread calls a wrapped function: from outside any wrapper, or from the
\* body of original_fn or patched_fn of the frame on top.
inner_patch_call(t, f) ==
    /\ ~exc[t]
    /\ Len(stack[t]) < MaxDepth
    /\ stack[t] # <<>> => InBody(Top(t))
    /\ stack' = [stack EXCEPT ![t] = Append(@, [fn |-> f, pc |-> "check"])]
    /\ UNCHANGED <<recursion_guard, exc, regVars, wfhVars, thrVars, hpVars, cbVars>>

\* lines 28-30: the ident is looked up; a hit calls original_fn directly
inner_patch_check(t) ==
    /\ stack[t] # <<>>
    /\ Top(t).pc = "check"
    /\ stack' = SetTopPc(t, IF guard_hit(get_ident(t), recursion_guard)
                            THEN "original_fn" ELSE "set")
    /\ UNCHANGED <<recursion_guard, exc, regVars, wfhVars, thrVars, hpVars, cbVars>>

\* lines 31-34: the ident is stored and patched_fn is called
inner_patch_set(t) ==
    /\ stack[t] # <<>>
    /\ Top(t).pc = "set"
    /\ recursion_guard' = recursion_guard \cup {get_ident(t)}
    /\ stack' = SetTopPc(t, "patched_fn")
    /\ UNCHANGED <<exc, regVars, wfhVars, thrVars, hpVars, cbVars>>

\* what leaving a frame does to the guard: the finally clause of lines
\* 37-41 runs when patched_fn was called, nothing when original_fn was
LeaveGuard(t) ==
    IF Top(t).pc = "patched_fn"
    THEN guard_pop(get_ident(t), recursion_guard)
    ELSE recursion_guard

\* lines 30 and 42: the body returns normally
inner_patch_return(t) ==
    /\ stack[t] # <<>>
    /\ InBody(Top(t))
    /\ ~exc[t]
    /\ recursion_guard' = LeaveGuard(t)
    /\ stack' = Pop(t)
    /\ UNCHANGED <<exc, regVars, wfhVars, thrVars, hpVars, cbVars>>

\* the body running on top (original_fn or patched_fn) raises
body_raise(t) ==
    /\ stack[t] # <<>>
    /\ InBody(Top(t))
    /\ ~exc[t]
    /\ exc' = [exc EXCEPT ![t] = TRUE]
    /\ UNCHANGED <<recursion_guard, stack, regVars, wfhVars, thrVars, hpVars, cbVars>>

\* lines 35-41: the exception leaves the frame (re-raised after the finally
\* clause, or straight out of "return original_fn(...)")
inner_patch_unwind(t) ==
    /\ stack[t] # <<>>
    /\ exc[t]
    /\ recursion_guard' = LeaveGuard(t)
    /\ stack' = Pop(t)
    /\ UNCHANGED <<exc, regVars, wfhVars, thrVars, hpVars, cbVars>>

\* the exception is caught: by the body that made the failing call (as _fit
\* does, catboost_bind.py lines 117-126), or by the caller of the outermost
\* wrapper
exception_caught(t) ==
    /\ exc[t]
    /\ exc' = [exc EXCEPT ![t] = FALSE]
    /\ UNCHANGED <<recursion_guard, stack, regVars, wfhVars, thrVars, hpVars, cbVars>>

PatchInit ==
    /\ ThrIdle
    /\ HpIdle
    /\ CbIdle
    /\ PatchIdle
    /\ RegistryIdle
    /\ WfhIdle

PatchNext ==
    \E t \in Threads :
        \/ \E f \in WrappedFns : inner_patch_call(t, f)
        \/ inner_patch_check(t)
        \/ inner_patch_set(t)
        \/ inner_patch_return(t)
        \/ body_raise(t)
        \/ inner_patch_unwind(t)
        \/ exception_caught(t)

PatchSpec == PatchInit /\ [][PatchNext]_vars

----------------------------------------------------------------------------
(* WeightsFileHandler: the values restore_weights_file and                 *)
(* create_output_model work on                                             *)

\* a filepath argument that is not a string (a file object)
FileObj == "<file object>"

\* the filepath / saved_path arguments of the model
FilepathArgs == {NoneV, "", "w.cbm", "/d/w.cbm", FileObj}

\* Python truth of a path value
Truthy(p) == p \notin {NoneV, ""}

\* os.path.abspath raises TypeError on a value that is not a path
abspath_raises(p) == p = FileObj

\* os.path.abspath: a relative path is joined to the working directory
abspath(p) == IF p = "w.cbm" THEN "/cwd/w.cbm" ELSE p

\* lines 207 and 378, "os.path.abspath(p) if p else p" (mutant: the path
\* stays as given)
local_path_as_given(p) == p

local_path(p) == IF Truthy(p) THEN abspath(p) ELSE p

\* the url the server keeps for a model id
url_of(id) ==
    CASE id = "imported"   -> "file:///imported"
      [] id = "registered" -> "s3://bucket/registered"
      [] id = "user"       -> "s3://bucket/user"
      [] id = "out"        -> "s3://bucket/out"
      [] OTHER             -> NoneV

ModelOf(id) == [id |-> id, url |-> url_of(id)]

\* line 278, InputModel(model_id)
InputModel(model_id) == ModelOf(model_id)

\* lines 284-292, InputModel.import_model(weights_url=local_model_path, ...)
import_model(weights_url) == ModelOf("imported")

\* lines 455-457, InputModel.load_model(weights_url=...).id when a model is
\* registered for the url
load_model_id == "registered"

\* lines 469-479, OutputModel(task=task, ..., base_model_id=in_model_id):
\* the registered model when there is one, else a new model
OutputModel(base_model_id) ==
    ModelOf(IF base_model_id = NoneV THEN "out" ELSE base_model_id)

\* the model a callback puts into model_info.model
UserModel == ModelOf("user")

\* lines 212-219 and 383-390, ModelInfo(model=None, ...)
ModelInfo(local_model_path, local_model_id) ==
    [kind |-> "ModelInfo", model |-> NoneModel,
     local_model_path |-> local_model_path, local_model_id |-> local_model_id]

\* the ModelInfo a callback builds itself and returns in place of its argument
NewInfo == ModelInfo("/d/w.cbm", "/d/w.cbm")

\* what a callback may do when it is called with (action, model_info)
CallbackOutcomes == {"same", "none", "raise", "set_model", "new_info"}

\* lines 223-226, 298-301, 426-429, 495-498:
\*     try: model_info = cb(action, model_info)
\*     except Exception: pass
\* "same" returns its argument, "none" returns None, "raise" raises,
\* "set_model" assigns model_info.model (AttributeError on None) and returns
\* it, "new_info" returns a ModelInfo of its own.
apply_callback(o, model_info) ==
    CASE o = "same"      -> model_info
      [] o = "none"      -> NoneInfo
      [] o = "raise"     -> model_info
      [] o = "set_model" -> IF model_info.kind = "None" THEN model_info
                            ELSE [model_info EXCEPT !.model = UserModel]
      [] o = "new_info"  -> NewInfo

\* the value a callback returned is None
callback_returned_none(o, model_info) ==
    \/ o = "none"
    \/ o = "same" /\ model_info.kind = "None"

\* the for loops of lines 221, 296, 424, 493 over list(registry.values()),
\* os[i] being what the i-th callback does
RECURSIVE run_callbacks(_, _)
run_callbacks(model_info, os) ==
    IF os = <<>> THEN model_info
    ELSE run_callbacks(apply_callback(Head(os), model_info), Tail(os))

\* some callback of the loop returned None
RECURSIVE some_returned_none(_, _)
some_returned_none(model_info, os) ==
    IF os = <<>> THEN FALSE
    ELSE \/ callback_returned_none(Head(os), model_info)
         \/ some_returned_none(apply_callback(Head(os), model_info), Tail(os))

\* what the callbacks of a registry may do in one loop
OutcomesFor(registry) == [1..Len(registry) -> CallbackOutcomes]

\* lines 271-274 and 444-447, the key of the cache lookup (mutant: the
\* absolute path is looked up)
lookup_key_abspath(model_info) == model_info.local_model_path

lookup_key(model_info) ==
    IF Truthy(model_info.local_model_id)
    THEN model_info.local_model_id ELSE model_info.local_model_path

\* Model._local_model_to_id_uri.get(key, (None, None))
dict_get(d, k) == IF k \in DOMAIN d THEN d[k] ELSE <<NoneV, NoneV>>

\* d[k] = v
dict_put(d, k, v) == [x \in DOMAIN d \cup {k} |-> IF x = k THEN v ELSE d[x]]

\* lines 334-337 and 538-541: the key and the value of the cache update
\* (mutant: the key is the absolute path)
cache_key_abspath(c) == c.model_info.local_model_path

cache_key(c) == c.model_info.local_model_id

cache_value(c) == <<c.model.id, c.model.url>>

----------------------------------------------------------------------------
(* WeightsFileHandler.restore_weights_file and create_output_model         *)

\* lines 302 and 502, "trains_in_model = model_info.model" after the post
\* callbacks (mutant: the model of the lookup is kept)
model_after_post_stale(model_info, model) == model

model_after_post(model_info, model) == model_info.model

\* threading.Lock.acquire() returns once the lock is free (mutant: it
\* returns at once)
lock_free_always(lock) == TRUE

lock_free(lock) == lock = NoneV

\* the locals of a call that starts
StartCall(op, filepath) ==
    [NoCall EXCEPT !.op = op, !.pc = "begin", !.filepath = filepath]

\* "return filepath" / "return saved_path": lines 204, 210, 231, 235, 344,
\* 357, 548 (mutant: the absolute path is returned)
return_value_abspath(c) == local_path(c.filepath)

return_value(c) == c.filepath

\* the call has returned: its locals are gone
Returned(c) ==
    [c EXCEPT !.pc = "returned", !.result = return_value(c),
              !.model_info = NoneInfo, !.model = NoneModel, !.did = {}]

\* the call goes to its finally clause (lines 341-342, 545-546), which reads
\* no local (mutant: the call returns without it)
Finally_returns(c) == Returned(c)

Finally(c) ==
    [c EXCEPT !.pc = "release", !.model_info = NoneInfo, !.model = NoneModel]

\* an exception inside the try block: it is caught and logged (lines
\* 339-340, 543-544)
Raised(c) == [Finally(c) EXCEPT !.raised = TRUE]

CanStart(t) == call[t].pc \in {"idle", "returned"}

\* lines 203-235: up to the lock
restore_weights_file_begin(t, filepath, task) ==
    /\ CanStart(t)
    /\ LET c == StartCall("restore", filepath) IN
          IF task = NoneV \/ abspath_raises(filepath)
          THEN call' = [call EXCEPT ![t] = Returned(c)]
          ELSE \E os \in OutcomesFor(model_pre_callbacks) :
                 LET mi0 == ModelInfo(local_path(filepath), filepath)
                     mi == run_callbacks(mi0, os)
                     c1 == [c EXCEPT !.model_info = mi,
                                     !.pre_none = some_returned_none(mi0, os)]
                 IN  call' = [call EXCEPT ![t] =
                        IF mi.kind = "None" \/ ~Truthy(mi.local_model_path)
                        THEN Returned(c1)
                        ELSE [c1 EXCEPT !.pc = "acquire"]]
    /\ UNCHANGED <<model_store_lookup_lock, local_model_to_id_uri,
                   patchVars, regVars, thrVars, hpVars, cbVars>>

\* lines 356-360
create_output_model_begin(t, saved_path, task) ==
    /\ CanStart(t)
    /\ LET c == StartCall("create", saved_path) IN
          call' = [call EXCEPT ![t] =
                     IF task = NoneV THEN Returned(c)
                     ELSE [c EXCEPT !.pc = "acquire"]]
    /\ UNCHANGED <<model_store_lookup_lock, local_model_to_id_uri,
                   patchVars, regVars, thrVars, hpVars, cbVars>>

\* lines 238 and 363, WeightsFileHandler._model_store_lookup_lock.acquire()
lock_acquire(t) ==
    /\ call[t].pc = "acquire"
    /\ lock_free(model_store_lookup_lock)
    /\ model_store_lookup_lock' = t
    /\ call' = [call EXCEPT ![t].pc =
                  IF call[t].op = "restore" THEN "lookup" ELSE "pre"]
    /\ UNCHANGED <<local_model_to_id_uri, patchVars, regVars, thrVars, hpVars, cbVars>>

\* lines 241-292: the model of the callback, else the cached model, else
\* the imported one
restore_weights_file_lookup(t) ==
    /\ call[t].op = "restore"
    /\ call[t].pc = "lookup"
    /\ LET c == call[t]
           mi == c.model_info
           cached == dict_get(local_model_to_id_uri, lookup_key(mi))
       IN  IF mi.model # NoneModel
           THEN call' = [call EXCEPT ![t] =
                           [c EXCEPT !.pc = "post", !.model = mi.model]]
           ELSE \E construct_ok, import_ok \in BOOLEAN :
                  LET c1 == [c EXCEPT !.did = @ \cup {"cache read"}]
                  IN  call' = [call EXCEPT ![t] =
                        IF cached[1] # NoneV /\ construct_ok
                        THEN [c1 EXCEPT !.pc = "post",
                                        !.model = InputModel(cached[1]),
                                        !.did = @ \cup {"InputModel"}]
                        ELSE LET c2 == [c1 EXCEPT !.did = @ \cup
                                          (IF cached[1] # NoneV
                                           THEN {"InputModel failed", "import_model"}
                                           ELSE {"import_model"})]
                             IN  IF import_ok
                                 THEN [c2 EXCEPT !.pc = "post",
                                          !.model = import_model(mi.local_model_path)]
                                 ELSE Raised(c2)]
    /\ UNCHANGED <<model_store_lookup_lock, local_model_to_id_uri,
                   patchVars, regVars, thrVars, hpVars, cbVars>>

\* lines 294-302 and 489-503: the post callbacks; "model_info.model" and
\* "model_info.weights_object = None" raise AttributeError when a callback
\* left model_info None
post_callbacks(t) ==
    /\ call[t].pc = "post"
    /\ \E os \in OutcomesFor(model_post_callbacks) :
         LET c == call[t]
             mi == run_callbacks([c.model_info EXCEPT !.model = c.model], os)
         IN  call' = [call EXCEPT ![t] =
               IF mi.kind = "None"
               THEN Raised(c)
               ELSE [c EXCEPT !.pc = "update", !.model_info = mi,
                              !.model = model_after_post(mi, c.model)]]
    /\ UNCHANGED <<model_store_lookup_lock, local_model_to_id_uri,
                   patchVars, regVars, thrVars, hpVars, cbVars>>

\* lines 313-337: task.connect and the cache update
restore_weights_file_update(t) ==
    /\ call[t].op = "restore"
    /\ call[t].pc = "update"
    /\ \E connect_ok \in BOOLEAN :
         LET c == [call[t] EXCEPT !.did = @ \cup {"connect"}] IN
           IF connect_ok /\ c.model # NoneModel
           THEN /\ local_model_to_id_uri' =
                      dict_put(local_model_to_id_uri, cache_key(c),
                               cache_value(c))
                /\ call' = [call EXCEPT ![t] =
                      Finally([c EXCEPT !.did = @ \cup {"cache write"}])]
           ELSE /\ call' = [call EXCEPT ![t] = Raised(c)]
                /\ UNCHANGED local_model_to_id_uri
    /\ UNCHANGED <<model_store_lookup_lock, patchVars, regVars, thrVars, hpVars, cbVars>>

\* lines 366-439: the path, the files to upload and the pre callbacks.
\* nfiles is what the directory listing finds: files[0] raises IndexError
\* when it finds nothing.
create_output_model_pre(t) ==
    /\ call[t].op = "create"
    /\ call[t].pc = "pre"
    /\ LET c == call[t] IN
         IF abspath_raises(c.filepath) \/ ~Truthy(local_path(c.filepath))
         THEN call' = [call EXCEPT ![t] = Finally(c)]
         ELSE \E nfiles \in 0..2 : \E os \in OutcomesFor(model_pre_callbacks) :
                LET mi0 == ModelInfo(local_path(c.filepath), c.filepath)
                    mi == run_callbacks(mi0, os)
                IN  call' = [call EXCEPT ![t] =
                      IF nfiles = 0
                      THEN Raised(c)
                      ELSE IF mi.kind = "None"
                      THEN Raised([c EXCEPT !.pre_none =
                                      some_returned_none(mi0, os)])
                      ELSE [c EXCEPT !.pc = "lookup", !.model_info = mi,
                                     !.pre_none = some_returned_none(mi0, os)]]
    /\ UNCHANGED <<model_store_lookup_lock, local_model_to_id_uri,
                   patchVars, regVars, thrVars, hpVars, cbVars>>

\* lines 439-479: the model of the callback, else an OutputModel on the
\* cached or registered model id
create_output_model_lookup(t) ==
    /\ call[t].op = "create"
    /\ call[t].pc = "lookup"
    /\ LET c == call[t]
           mi == c.model_info
           cached == dict_get(local_model_to_id_uri, lookup_key(mi))
       IN  IF mi.model # NoneModel
           THEN call' = [call EXCEPT ![t] =
                           [c EXCEPT !.pc = "post", !.model = mi.model]]
           ELSE \E output_uri, create_ok \in BOOLEAN :
                \E load \in {"found", "none", "raise"} :
                  LET try_load == cached[1] = NoneV /\ ~output_uri
                      in_model_id ==
                          IF cached[1] # NoneV THEN cached[1]
                          ELSE IF try_load /\ load = "found" THEN load_model_id
                          ELSE NoneV
                      c1 == [c EXCEPT !.did = @ \cup {"cache read", "OutputModel"}
                                          \cup (IF try_load THEN {"load_model"} ELSE {})]
                  IN  call' = [call EXCEPT ![t] =
                        IF create_ok
                        THEN [c1 EXCEPT !.pc = "post",
                                        !.model = OutputModel(in_model_id)]
                        ELSE Raised(c1)]
    /\ UNCHANGED <<model_store_lookup_lock, local_model_to_id_uri,
                   patchVars, regVars, thrVars, hpVars, cbVars>>

\* lines 505-541: update_weights / update_weights_package and the cache
\* update
create_output_model_update(t) ==
    /\ call[t].op = "create"
    /\ call[t].pc = "update"
    /\ \E upload_ok \in BOOLEAN :
         LET c == call[t] IN
           IF c.model = NoneModel
           THEN /\ call' = [call EXCEPT ![t] = Raised(c)]
                /\ UNCHANGED local_model_to_id_uri
           ELSE IF upload_ok
           THEN /\ local_model_to_id_uri' =
                      dict_put(local_model_to_id_uri, cache_key(c),
                               cache_value(c))
                /\ call' = [call EXCEPT ![t] =
                      Finally([c EXCEPT !.did = @ \cup
                                  {"update_weights", "cache write"}])]
           ELSE /\ call' = [call EXCEPT ![t] =
                      Raised([c EXCEPT !.did = @ \cup {"update_weights"}])]
                /\ UNCHANGED local_model_to_id_uri
    /\ UNCHANGED <<model_store_lookup_lock, patchVars, regVars, thrVars, hpVars, cbVars>>

\* lines 339-344 and 543-548: the exception is logged, the lock released
\* and the path returned
lock_release(t) ==
    /\ call[t].pc = "release"
    /\ model_store_lookup_lock' = NoneV
    /\ call' = [call EXCEPT ![t] = Returned(call[t])]
    /\ UNCHANGED <<local_model_to_id_uri, patchVars, regVars, thrVars, hpVars, cbVars>>

\* the task arguments: None or a Task
TaskArgs == {NoneV, "task"}

\* how many callbacks a registry holds when the calls are made
MaxCallbacks == 2

\* a registry after k functions were added: any handles do
RegistryOf(k) == [i \in 1..k |-> [h |-> i - 1, f |-> IF i = 1 THEN "f1" ELSE "f2"]]

WfhInit ==
    /\ PatchIdle
    /\ WfhIdle
    /\ ThrIdle
    /\ HpIdle
    /\ CbIdle
    /\ api_ret = NoRet
    /\ \E k \in 0..MaxCallbacks : model_pre_callbacks = RegistryOf(k)
    /\ \E k \in 0..MaxCallbacks : model_post_callbacks = RegistryOf(k)

\* the calls of the threads T with arguments from paths and tasks
WfhCalls(T, paths, tasks) ==
    \E t \in T :
        \/ \E filepath \in paths, task \in tasks :
              restore_weights_file_begin(t, filepath, task)
        \/ \E saved_path \in paths, task \in tasks :
              create_output_model_begin(t, saved_path, task)
        \/ lock_acquire(t)
        \/ restore_weights_file_lookup(t)
        \/ create_output_model_pre(t)
        \/ create_output_model_lookup(t)
        \/ post_callbacks(t)
        \/ restore_weights_file_update(t)
        \/ create_output_model_update(t)
        \/ lock_release(t)

\* one thread calling, with every kind of argument
WfhNext == WfhCalls({"t1"}, FilepathArgs, TaskArgs)

WfhSpec == WfhInit /\ [][WfhNext]_vars

\* two threads calling at once
WfhConcNext == WfhCalls(Threads, {"", "w.cbm"}, {"task"})

\* one callback in each registry: what it does is chosen at each call, and
\* "same" is what an empty registry does
WfhConcInit ==
    /\ PatchIdle
    /\ WfhIdle
    /\ ThrIdle
    /\ HpIdle
    /\ CbIdle
    /\ api_ret = NoRet
    /\ model_pre_callbacks = RegistryOf(1)
    /\ model_post_callbacks = RegistryOf(1)

WfhConcSpec == WfhConcInit /\ [][WfhConcNext]_vars

\* two threads calling at once, with a path that is not recognised and
\* without a task among the arguments
WfhLockNext == WfhCalls(Threads, {"", "w.cbm", FileObj}, TaskArgs)

WfhLockSpec == WfhConcInit /\ [][WfhLockNext]_vars

----------------------------------------------------------------------------
(* Claims about restore_weights_file and create_output_model               *)

\* the pairs the cache holds for a key, None when it holds none
CachedId(k) == dict_get(local_model_to_id_uri, k)[1]

\* the places of a call between its acquire and its release of the lock
InsideLock == {"pre", "lookup", "post", "update", "release"}

\* C1: a pre callback that returns None disables the tracking of that call:
\* no model is created, looked up or imported, nothing is uploaded or
\* registered, task.connect is not called, the cache is not updated, and the
\* call returns the path it was given.
C1_NoneDisablesTracking ==
    \A t \in Threads :
        call[t].pre_none =>
            /\ call[t].did = {}
            /\ call[t].model = NoneModel
            /\ call[t].pc # "update"
            /\ call[t].pc = "returned" => call[t].result = call[t].filepath

\* C4: restore_weights_file and create_output_model read and write the path
\* cache only while the calling thread holds _model_store_lookup_lock, so two
\* threads are never both between the lookup and the update.
C4_CacheUnderLock ==
    /\ \A t \in Threads :
          call[t].pc \in InsideLock => model_store_lookup_lock = t
    /\ Cardinality({t \in Threads : call[t].pc \in InsideLock}) <= 1

\* one thread is between its lookup and its update while another waits for
\* the lock
C4_Witness ==
    \E a, b \in Threads :
        /\ call[a].pc = "update"
        /\ "cache read" \in call[a].did
        /\ call[b].pc = "acquire"

\* a restore call that has just done its lookup (no model came from a pre
\* callback)
AfterLookup(c) ==
    c.op = "restore" /\ c.pc = "post" /\ "cache read" \in c.did

FinishesRegistration(t) ==
    /\ call[t].pc = "update"
    /\ call'[t].pc = "release"
    /\ ~call'[t].raised

\* the cache after d[k] = v
IsPut(before, after, k, v) ==
    /\ DOMAIN after = DOMAIN before \cup {k}
    /\ after[k] = v
    /\ \A x \in DOMAIN before : x # k => after[x] = before[x]

\* C6 as stated: a call that finishes registration leaves the cache mapping
\* the path the caller passed to the (id, url) of the model that is in
\* ModelInfo after the post callbacks; any other step of a call leaves the
\* cache as it was.
C6_CacheKeyedByPassedPath ==
    [][\A t \in Threads :
          call'[t] # call[t] =>
              IF FinishesRegistration(t)
              THEN IsPut(local_model_to_id_uri, local_model_to_id_uri',
                         call[t].filepath,
                         <<call[t].model_info.model.id,
                           call[t].model_info.model.url>>)
              ELSE local_model_to_id_uri' = local_model_to_id_uri]_vars

\* C6 amended: the key is model_info.local_model_id as the post callbacks
\* left it (the path the caller passed unless a callback changed it).
C6_CacheKeyedByModelId ==
    [][\A t \in Threads :
          call'[t] # call[t] =>
              IF FinishesRegistration(t)
              THEN IsPut(local_model_to_id_uri, local_model_to_id_uri',
                         call[t].model_info.local_model_id,
                         <<call[t].model_info.model.id,
                           call[t].model_info.model.url>>)
              ELSE local_model_to_id_uri' = local_model_to_id_uri]_vars

\* a call for "w.cbm" finished registration with the model a post callback
\* put into ModelInfo, and the cache holds that model for "w.cbm"
C6_Witness ==
    \E t \in Threads :
        /\ call[t].pc = "release"
        /\ ~call[t].raised
        /\ "cache write" \in call[t].did
        /\ call[t].filepath = "w.cbm"
        /\ CachedId("w.cbm") = "user"

----------------------------------------------------------------------------
(* Claims about the callback registries                                    *)

\* what an add of func that returned h may do to a registry
AddedOnce(func, h, before, after) ==
    IF \E i \in DOMAIN before : before[i].f = func
    THEN /\ after = before
         /\ \E i \in DOMAIN before : before[i] = [h |-> h, f |-> func]
    ELSE /\ \A i \in DOMAIN before : before[i].h # h
         /\ after = before \o <<[h |-> h, f |-> func]>>

\* what a remove of handle that returned val may do to a registry
RemovedOnce(handle, val, before, after) ==
    /\ val = (\E i \in DOMAIN before : before[i].h = handle)
    /\ \A i \in DOMAIN after : after[i].h # handle
    /\ \A e \in {before[i] : i \in DOMAIN before} :
          e.h # handle => \E i \in DOMAIN after : after[i] = e
    /\ Len(after) = Len(before) - (IF val THEN 1 ELSE 0)
    /\ ~val => after = before

\* C7: add_pre_callback and add_post_callback are idempotent per function: a
\* function that is registered gets the handle it has and the registry stays
\* as it is; a function that is not gets one new entry under an unused handle.
C7_AddIdempotent ==
    [][/\ api_ret'.op = "add_pre" =>
            /\ AddedOnce(api_ret'.arg, api_ret'.val,
                         model_pre_callbacks, model_pre_callbacks')
            /\ model_post_callbacks' = model_post_callbacks
       /\ api_ret'.op = "add_post" =>
            /\ AddedOnce(api_ret'.arg, api_ret'.val,
                         model_post_callbacks, model_post_callbacks')
            /\ model_pre_callbacks' = model_pre_callbacks]_vars

\* a second add of the function registered first, with two functions
\* registered: the handle returned is the first entry's, not the last one's
C7_Witness ==
    /\ api_ret.op = "add_post"
    /\ Len(model_post_callbacks) = 2
    /\ api_ret.val = model_post_callbacks[1].h
    /\ api_ret.arg = model_post_callbacks[1].f

\* C8: remove_pre_callback and remove_post_callback return True exactly when
\* the handle is registered in that registry; then that entry alone is
\* removed; otherwise nothing changes (so a second remove returns False).
C8_RemoveExact ==
    [][/\ api_ret'.op = "remove_pre" =>
            /\ RemovedOnce(api_ret'.arg, api_ret'.val,
                           model_pre_callbacks, model_pre_callbacks')
            /\ model_post_callbacks' = model_post_callbacks
       /\ api_ret'.op = "remove_post" =>
            /\ RemovedOnce(api_ret'.arg, api_ret'.val,
                           model_post_callbacks, model_post_callbacks')
            /\ model_pre_callbacks' = model_pre_callbacks]_vars

\* a remove that returned True and left the other entry in place
C8_Witness ==
    /\ api_ret.op = "remove_pre"
    /\ api_ret.val = TRUE
    /\ Len(model_pre_callbacks) = 1
    /\ model_pre_callbacks[1].h # api_ret.arg

----------------------------------------------------------------------------
(* Claims about _patched_call                                              *)

PatchedFrames(t) == {i \in 1..Len(stack[t]) : stack[t][i].pc = "patched_fn"}

\* C2: while a thread runs a patched_fn, every nested call that thread makes
\* to a wrapped function runs original_fn directly and never a patched_fn,
\* so a thread has at most one patched_fn active.
C2_NestedCallsBypass ==
    \A t \in Threads :
        /\ Cardinality(PatchedFrames(t)) <= 1
        /\ \A i \in PatchedFrames(t) : \A j \in (i + 1)..Len(stack[t]) :
              stack[t][j].pc \in {"check", "original_fn"}

C2_Witness ==
    \E t \in Threads :
        /\ Len(stack[t]) >= 2
        /\ stack[t][1].pc = "patched_fn"
        /\ stack[t][2].pc = "original_fn"

\* C3: the recursion flag is per thread: the outermost call of a thread goes
\* through patched_fn whatever the other threads are doing, and a step of one
\* thread never sets or clears the flag of another thread.
C3_FlagPerThread ==
    /\ [](\A t \in Threads :
            stack[t] # <<>> => stack[t][1].pc \in {"check", "set", "patched_fn"})
    /\ [][\A a \in Threads :
            (stack'[a] = stack[a] /\ exc'[a] = exc[a])
                => ((a \in recursion_guard') <=> (a \in recursion_guard))]_vars

C3_Witness ==
    \E a, b \in Threads :
        /\ a # b
        /\ stack[a] # <<>> /\ stack[a][1].pc = "patched_fn"
        /\ stack[b] # <<>> /\ Top(b).pc = "patched_fn"
        /\ {a, b} \subseteq recursion_guard

----------------------------------------------------------------------------
(* utilities/lowlevel/threads.py                                           *)
(*                                                                         *)
(* One caller makes kill_thread and threadpool_waited_join calls, one at a *)
(* time.  Around it run the Thread "T" it is given, the pool "P" and the   *)
(* waitable thread "W" that threadpool_waited_join starts for a pool.      *)
(* Time is counted in ticks from the start of a call: it passes only while *)
(* the caller is blocked, and not while a running thread has a statement   *)
(* to execute, so that what happens between two ticks happens at once.     *)

\* how many thread states may carry one thread id
MaxThreadStates == 2

\* the timeouts a caller passes, in ticks
MaxTimeout == 2

WaitedJoin == "threadpool_waited_join"

active_set(tid, tobj) ==
    [i \in (DOMAIN active) \cup {tid} |-> IF i = tid THEN tobj ELSE active[i]]

active_del(tid) == [i \in (DOMAIN active) \ {tid} |-> active[i]]

\* the ids no live thread has
FreeTids == Tids \ DOMAIN active

\* Thread.is_alive()
is_alive(tobj) == status[tobj] \in {"running", "joining", "joined"}

\* PyThreadState_SetAsyncExc(tid, exception): exc is set in, or with NULL cleared
\* from, every thread state of that id
SetAsyncExc(tid, exception) ==
    IF tid \in Tids
    THEN [tstate EXCEPT ![tid].pending = IF exception = NoneV THEN 0 ELSE tstate[tid].n]
    ELSE tstate

\* what PyThreadState_SetAsyncExc returns: the thread states it modified
SetAsyncExc_ret(tid) == IF tid \in Tids THEN tstate[tid].n ELSE 0

\* a thread starts: it enters threading._active and gets a thread state
StartThread(tobj, tid, st) ==
    /\ active' = active_set(tid, tobj)
    /\ tstate' = [tstate EXCEPT ![tid] = [n |-> 1, pending |-> 0]]
    /\ status' = [status EXCEPT ![tobj] = st]

\* a thread ends: it leaves threading._active and its thread states go
ExitThread(tobj, st) ==
    /\ \E tid \in DOMAIN active :
          /\ active[tid] = tobj
          /\ active' = active_del(tid)
          /\ tstate' = [tstate EXCEPT ![tid] = NoThreadState]
    /\ status' = [status EXCEPT ![tobj] = st]

\* the call in progress is a threadpool_waited_join of tobj that has not
\* returned yet
Joining(tobj) ==
    /\ tcall.fn = WaitedJoin
    /\ tcall.obj = tobj
    /\ tcall.pc # "done"

\* the tick at which the join of tobj completed is noted in the call
NoteJoined(tobj) ==
    IF Joining(tobj) /\ tcall.done_at = -1
    THEN [tcall EXCEPT !.done_at = tcall.elapsed]
    ELSE tcall

CanCall == tcall.pc \in {"idle", "done"}

\* the thread kill_thread is called with: threadpool_waited_join passes its
\* waitable
kill_target == IF tcall.fn = WaitedJoin THEN "W" ELSE tcall.obj

\* kill_thread(waitable) is called without wait
kill_wait == IF tcall.fn = WaitedJoin THEN FALSE ELSE tcall.wait

\* kill_thread(thread_obj, wait)
kill_thread_call(thread_obj, wait) ==
    /\ CanCall
    /\ tcall' = [NoOp EXCEPT !.fn = "kill_thread", !.pc = "lookup",
                          !.obj = thread_obj, !.wait = wait]
    /\ UNCHANGED <<active, tstate, status, patchVars, regVars, wfhVars, hpVars, cbVars>>

\* _lowlevel_async_raise: the search of threading._active
async_raise_lookup ==
    /\ tcall.pc = "lookup"
    /\ IF \E tid \in DOMAIN active : active[tid] = kill_target
       THEN tcall' = [tcall EXCEPT
                     !.found = TRUE,
                     !.target_tid = CHOOSE tid \in DOMAIN active :
                                       active[tid] = kill_target,
                     !.pc = "set_exc"]
       ELSE tcall' = [tcall EXCEPT !.found = FALSE, !.raise_result = FALSE,
                             !.pc = "kill_return"]
    /\ UNCHANGED <<active, tstate, status, patchVars, regVars, wfhVars, hpVars, cbVars>>

\* _lowlevel_async_raise: the call of PyThreadState_SetAsyncExc, which
\* leaves ret = 0 when the call itself raises
async_raise_set ==
    /\ tcall.pc = "set_exc"
    /\ \E api_ok \in BOOLEAN :
          IF api_ok
          THEN /\ tstate' = SetAsyncExc(tcall.target_tid, "SystemExit")
               /\ tcall' = [tcall EXCEPT !.ret = SetAsyncExc_ret(tcall.target_tid),
                                   !.pc = "check_ret"]
          ELSE /\ UNCHANGED tstate
               /\ tcall' = [tcall EXCEPT !.ret = 0, !.pc = "check_ret"]
    /\ UNCHANGED <<active, status, patchVars, regVars, wfhVars, hpVars, cbVars>>

async_raise_outcome_any(ret) == IF ret = 0 THEN "invalid" ELSE "set"

\* _lowlevel_async_raise: what is made of ret
async_raise_outcome(ret) ==
    IF ret = 0 THEN "invalid"
    ELSE IF ret > 1 THEN "cleanup"
    ELSE "set"

\* _lowlevel_async_raise: the branches on ret.  The second call of
\* PyThreadState_SetAsyncExc is reached only after the first one, with the
\* same function and the same thread id, has worked.
async_raise_check ==
    /\ tcall.pc = "check_ret"
    /\ LET outcome == async_raise_outcome(tcall.ret)
       IN  /\ tstate' = IF outcome = "cleanup"
                        THEN SetAsyncExc(tcall.target_tid, NoneV)
                        ELSE tstate
           /\ tcall' = [tcall EXCEPT !.raise_result = (outcome = "set"),
                               !.pc = "kill_return"]
    /\ UNCHANGED <<active, status, patchVars, regVars, wfhVars, hpVars, cbVars>>

\* what the call returns once kill_thread has returned v:
\* threadpool_waited_join returns False whatever kill_thread returned
AfterKill(v) ==
    [tcall EXCEPT !.pc = "done",
               !.result = IF tcall.fn = WaitedJoin THEN FALSE ELSE v]

\* kill_thread: the test of what _lowlevel_async_raise returned and of the
\* condition of the while loop
kill_thread_return ==
    /\ tcall.pc = "kill_return"
    /\ IF ~tcall.raise_result
       THEN tcall' = AfterKill(FALSE)
       ELSE IF kill_wait /\ is_alive(kill_target)
            THEN tcall' = [tcall EXCEPT !.pc = "sleep"]
            ELSE tcall' = AfterKill(TRUE)
    /\ UNCHANGED <<active, tstate, status, patchVars, regVars, wfhVars, hpVars, cbVars>>

\* kill_thread: time.sleep(0.1) is over
kill_thread_sleep ==
    /\ tcall.pc = "sleep"
    /\ tcall' = [tcall EXCEPT !.pc = "kill_return"]
    /\ UNCHANGED <<active, tstate, status, patchVars, regVars, wfhVars, hpVars, cbVars>>

join_completed_alive(tobj) == is_alive(tobj)

\* threadpool_waited_join: not thread_object.is_alive()
join_completed(tobj) == ~is_alive(tobj)

\* threadpool_waited_join up to the point where it blocks.  Thread.join
\* raises RuntimeError for a thread that was not started.  Every call for a
\* pool makes its own event and waitable; one waitable is followed at a
\* time, so a pool is joined again once the last waitable has ended.
threadpool_waited_join_call(thread_object, timeout) ==
    /\ CanCall
    /\ LET c == [NoOp EXCEPT !.fn = WaitedJoin, !.obj = thread_object,
                             !.timeout = timeout]
       IN  CASE thread_object = NoneV ->
                  /\ tcall' = [c EXCEPT !.pc = "done", !.result = TRUE]
                  /\ UNCHANGED <<active, tstate, status>>
             [] thread_object = "T" ->
                  /\ tcall' = IF status["T"] = "new"
                           THEN [c EXCEPT !.pc = "done", !.raised = TRUE]
                           ELSE [c EXCEPT !.pc = "join",
                                          !.done_at = IF is_alive("T")
                                                      THEN -1 ELSE 0]
                  /\ UNCHANGED <<active, tstate, status>>
             [] thread_object = "P" ->
                  /\ status["W"] = "none"
                  /\ \E tid \in FreeTids : StartThread("W", tid, "joining")
                  /\ tcall' = [c EXCEPT !.pc = "wait"]
    /\ UNCHANGED <<patchVars, regVars, wfhVars, hpVars, cbVars>>

\* thread_object.join(timeout=timeout) returns: the thread has ended or the
\* timeout has passed
thread_join_return ==
    /\ tcall.pc = "join"
    /\ ~is_alive("T") \/ tcall.elapsed = tcall.timeout
    /\ tcall' = [tcall EXCEPT !.pc = "is_alive"]
    /\ UNCHANGED <<active, tstate, status, patchVars, regVars, wfhVars, hpVars, cbVars>>

\* return not thread_object.is_alive()
thread_is_alive ==
    /\ tcall.pc = "is_alive"
    /\ tcall' = [tcall EXCEPT !.pc = "done", !.result = join_completed("T")]
    /\ UNCHANGED <<active, tstate, status, patchVars, regVars, wfhVars, hpVars, cbVars>>

\* done_signal.wait(timeout=timeout) returns: the event is set, or the
\* timeout has passed and kill_thread(waitable) is called
done_signal_wait_return ==
    /\ tcall.pc = "wait"
    /\ tcall.done_signal \/ tcall.elapsed = tcall.timeout
    /\ tcall' = IF tcall.done_signal
             THEN [tcall EXCEPT !.pc = "done", !.result = TRUE]
             ELSE [tcall EXCEPT !.pc = "lookup"]
    /\ UNCHANGED <<active, tstate, status, patchVars, regVars, wfhVars, hpVars, cbVars>>

\* the Thread given to the caller is started
thread_start ==
    /\ status["T"] = "new"
    /\ \E tid \in FreeTids : StartThread("T", tid, "running")
    /\ UNCHANGED <<tcall, patchVars, regVars, wfhVars, hpVars, cbVars>>

\* the Thread given to the caller runs to its end
thread_exit ==
    /\ status["T"] = "running"
    /\ ExitThread("T", "finished")
    /\ tcall' = NoteJoined("T")
    /\ UNCHANGED <<patchVars, regVars, wfhVars, hpVars, cbVars>>

\* the pool finishes its work
pool_finish ==
    /\ status["P"] = "running"
    /\ status' = [status EXCEPT !["P"] = "finished"]
    /\ UNCHANGED <<active, tstate, tcall, patchVars, regVars, wfhVars, hpVars, cbVars>>

\* __wait_thread: a_thread.join() returns
wait_thread_join_return ==
    /\ status["W"] = "joining"
    /\ status["P"] = "finished"
    /\ status' = [status EXCEPT !["W"] = "joined"]
    /\ tcall' = NoteJoined("P")
    /\ UNCHANGED <<active, tstate, patchVars, regVars, wfhVars, hpVars, cbVars>>

\* __wait_thread: a_thread.join() raises, as the join of a pool that was
\* not closed does; the exception is dropped and the thread ends
wait_thread_join_raise ==
    /\ status["W"] = "joining"
    /\ status["P"] = "running"
    /\ ExitThread("W", "none")
    /\ UNCHANGED <<tcall, patchVars, regVars, wfhVars, hpVars, cbVars>>

\* __wait_thread: a_event.set(), and the thread ends
wait_thread_set ==
    /\ status["W"] = "joined"
    /\ ExitThread("W", "none")
    /\ tcall' = IF tcall.fn = WaitedJoin /\ tcall.obj = "P"
             THEN [tcall EXCEPT !.done_signal = TRUE]
             ELSE tcall
    /\ UNCHANGED <<patchVars, regVars, wfhVars, hpVars, cbVars>>

\* a thread executes Python code: "W" inside a_thread.join() does not
runs_bytecode(tobj) == tobj = "T" \/ status[tobj] = "joined"

\* the interpreter raises the pending exception in the thread.  "T" may
\* catch the SystemExit and go on; in __wait_thread it passes the
\* except Exception clause and ends the thread before the event is set.
async_exc_deliver(tid) ==
    /\ tid \in DOMAIN active
    /\ tstate[tid].pending > 0
    /\ runs_bytecode(active[tid])
    /\ \E caught \in BOOLEAN :
          IF caught /\ active[tid] = "T"
          THEN /\ tstate' = [tstate EXCEPT ![tid].pending = 0]
               /\ UNCHANGED <<active, status, tcall>>
          ELSE IF active[tid] = "T"
               THEN /\ ExitThread("T", "finished")
                    /\ tcall' = NoteJoined("T")
               ELSE /\ ExitThread("W", "none")
                    /\ UNCHANGED tcall
    /\ UNCHANGED <<patchVars, regVars, wfhVars, hpVars, cbVars>>

\* a second thread state with the id of a live thread appears: the "hole
\* punched into the C level interpreter" of the comment in the code
thread_state_dup(tid) ==
    /\ tid \in DOMAIN active
    /\ tstate[tid].n < MaxThreadStates
    /\ tstate' = [tstate EXCEPT ![tid].n = tstate[tid].n + 1]
    /\ UNCHANGED <<active, status, tcall, patchVars, regVars, wfhVars, hpVars, cbVars>>

\* until when the blocked caller may stay blocked: join and wait return at
\* the timeout; the sleep of kill_thread is followed one tick further
deadline == IF tcall.pc = "sleep" THEN tcall.timeout + 1 ELSE tcall.timeout

\* a tick passes while the caller is blocked
tick ==
    /\ tcall.pc \in {"join", "wait", "sleep"}
    /\ tcall.elapsed < deadline
    /\ status["W"] # "joined"
    /\ tcall' = [tcall EXCEPT !.elapsed = tcall.elapsed + 1]
    /\ UNCHANGED <<active, tstate, status, patchVars, regVars, wfhVars, hpVars, cbVars>>

ThreadsInit ==
    /\ ThrIdle
    /\ HpIdle
    /\ CbIdle
    /\ PatchIdle
    /\ RegistryIdle
    /\ WfhIdle

\* the steps of the call in progress
CallerStep ==
    \/ async_raise_lookup
    \/ async_raise_set
    \/ async_raise_check
    \/ kill_thread_return
    \/ kill_thread_sleep
    \/ thread_join_return
    \/ thread_is_alive
    \/ done_signal_wait_return

ThreadsNext ==
    \/ \E wait \in BOOLEAN : kill_thread_call("T", wait)
    \/ \E thread_object \in {NoneV, "T", "P"}, timeout \in 0..MaxTimeout :
          threadpool_waited_join_call(thread_object, timeout)
    \/ CallerStep
    \/ thread_start
    \/ thread_exit
    \/ pool_finish
    \/ wait_thread_join_return
    \/ wait_thread_join_raise
    \/ wait_thread_set
    \/ \E tid \in Tids : async_exc_deliver(tid)
    \/ \E tid \in Tids : thread_state_dup(tid)
    \/ tick

\* the caller and the waitable thread get to run, and time passes
ThreadsSpec ==
    /\ ThreadsInit
    /\ [][ThreadsNext]_vars
    /\ WF_vars(CallerStep)
    /\ WF_vars(wait_thread_set)
    /\ WF_vars(tick)

----------------------------------------------------------------------------
(* Claims about threads.py                                                 *)

\* a threadpool_waited_join call has returned a value
JoinReturned == tcall.fn = WaitedJoin /\ tcall.pc = "done" /\ ~tcall.raised

RaiseReturned ==
    \/ tcall.pc \in {"kill_return", "sleep"}
    \/ tcall.pc = "done" /\ tcall.fn = "kill_thread"

----------------------------------------------------------------------------
(* backend_interface/task/hyperparams.py                                    *)
(*                                                                         *)
(* Every call of HyperParams runs from its first line to its return or     *)
(* raise in one step: the class keeps no state of its own between calls.   *)
(* What a call finds (the API version of the server, an offline task, the  *)
(* properties saved before) is drawn at the start; what it is given and    *)
(* what the server answers is drawn at the call.                           *)

\* how many values one call is given, and how many a server entry holds
MaxItems == 2

ApiVersions == {<<1, 12>>, <<2, 8>>, <<2, 9>>, <<2, 10>>, <<2, 11>>, <<3, 0>>}

check_min_api_version_minor(v) == api_version[2] >= v[2]

\* Session.check_min_api_version: versions compare part by part
check_min_api_version(v) ==
    \/ api_version[1] > v[1]
    \/ api_version[1] = v[1] /\ api_version[2] >= v[2]

NotSupported == "Not supported by server"

UNSAFE_NAMES_2_10 ==
    {<<"ne">>, <<"gt">>, <<"gte">>, <<"lt">>, <<"lte">>, <<"in">>, <<"nin">>,
     <<"mod">>, <<"all">>, <<"size">>, <<"exists">>, <<"not">>,
     <<"elemMatch">>, <<"type">>, <<"within_distance">>,
     <<"within_spherical_distance">>, <<"within_box">>, <<"within_polygon">>,
     <<"near">>, <<"near_sphere">>, <<"max_distance">>, <<"min_distance">>,
     <<"geo_within">>, <<"geo_within_box">>, <<"geo_within_polygon">>,
     <<"geo_within_center">>, <<"geo_within_sphere">>, <<"geo_intersects">>,
     <<"contains">>, <<"icontains">>, <<"startswith">>, <<"istartswith">>,
     <<"endswith">>, <<"iendswith">>, <<"exact">>, <<"iexact">>, <<"match">>}

escape_unsafe_values_never(value) == value

\* _escape_unsafe_values, for one value
escape_unsafe_values(value) ==
    IF value \notin UNSAFE_NAMES_2_10 THEN value ELSE <<"_">> \o value

\* the names and sections of the values edit_hyper_params is given
ItemNames == {Empty, <<"lr">>, <<"in">>}

ItemSections == {Empty, <<"all">>}

\* a tasks.ParamsItem, dict or tuple, by the name and section it carries
EditValues == [name : ItemNames, section : ItemSections]

\* the sequences over S of at most n elements
SeqUpTo(S, n) == UNION {[1..k -> S] : k \in 0..n}

\* an iterable of values: no value has a key
ListIterables ==
    {[i \in DOMAIN vs |-> [key |-> Empty, value |-> vs[i]]] :
        vs \in SeqUpTo(EditValues, MaxItems)}

\* a dict of name to value: the keys are distinct
DictIterables ==
    {es \in SeqUpTo([key : {<<"lr">>, <<"in">>}, value : EditValues], MaxItems) :
        \A i, j \in DOMAIN es : es[i].key = es[j].key => i = j}

ForceSections == {Empty, <<"type">>}

DefaultSections == {Empty, <<"D">>}

\* docstring of replace; anything else is sent as None
ReplaceHyperparamsEnum == {"none", "section", "all"}

section_of_own_first(force_section, own, default_section) ==
    IF own # Empty THEN own
    ELSE IF force_section # Empty THEN force_section
    ELSE default_section

\* force_section or a_item.section or default_section
section_of(force_section, own, default_section) ==
    IF force_section # Empty THEN force_section
    ELSE IF own # Empty THEN own
    ELSE default_section

\* the name make_item leaves in a_item before the escape
name_of(entry) == IF entry.key # Empty THEN entry.key ELSE entry.value.name

\* make_item for entry i of the iterables: the ValueError it raises, or the
\* item it returns
make_item(entries, i, force_section, default_section, escape_unsafe) ==
    LET name == name_of(entries[i])
        section == section_of(force_section, entries[i].value.section,
                              default_section)
    IN  IF name = Empty
        THEN [raised |-> "Missing hyper-param name"]
        ELSE IF section = Empty
        THEN [raised |-> "Missing hyper-param section"]
        ELSE [raised |-> "",
              item |-> IF escape_unsafe
                       THEN [section |-> escape_unsafe_values(section),
                             name |-> escape_unsafe_values(name),
                             from |-> i]
                       ELSE [section |-> section, name |-> name, from |-> i]]

\* dict.update({key: item}): a key that is there keeps its place
props_update(props, key, item) ==
    IF \E j \in DOMAIN props : props[j].key = key
    THEN [j \in DOMAIN props |->
            IF props[j].key = key THEN [key |-> key, item |-> item]
            ELSE props[j]]
    ELSE Append(props, [key |-> key, item |-> item])

RECURSIVE make_props(_, _, _, _, _, _, _)
\* props after the entries from i on: a dict is keyed by the names it was
\* given with, an iterable by item.name; the first ValueError ends the call
make_props(entries, is_dict, i, props, force_section, default_section, escape_unsafe) ==
    IF i > Len(entries) THEN [raised |-> "", props |-> props]
    ELSE LET m == make_item(entries, i, force_section, default_section,
                            escape_unsafe)
         IN  IF m.raised # "" THEN [raised |-> m.raised, props |-> <<>>]
             ELSE make_props(entries, is_dict, i + 1,
                             props_update(props,
                                          IF is_dict THEN entries[i].key
                                          ELSE m.item.name,
                                          m.item),
                             force_section, default_section, escape_unsafe)

\* props.values()
dict_values(props) == [j \in DOMAIN props |-> props[j].item]

RECURSIVE dict_update(_, _, _)
\* hyperparams["properties"].update(props)
dict_update(target, props, j) ==
    IF j > Len(props) THEN target
    ELSE dict_update(props_update(target, props[j].key, props[j].item),
                     props, j + 1)

\* a call can be made: each behaviour follows one call
NoCallYet == hp_call.fn = "none"

\* the ValueError of the first lines of the three methods
RaiseNotSupported(fn) ==
    /\ hp_call' = [fn |-> fn, raised |-> NotSupported, requested |-> FALSE]
    /\ UNCHANGED <<api_version, offline, offline_data, sent, reloads>>

\* HyperParams.edit_hyper_params
edit_hyper_params(iterables, is_dict, replace, default_section, force_section, res_ok) ==
    LET escape_unsafe == ~check_min_api_version(<<2, 11>>)
        m == make_props(iterables, is_dict, 1, <<>>, force_section,
                        default_section, escape_unsafe)
        c == [fn |-> "edit_hyper_params", raised |-> m.raised,
              requested |-> FALSE, values |-> iterables,
              force_section |-> force_section,
              default_section |-> default_section,
              items |-> dict_values(m.props),
              replace |-> IF replace \in ReplaceHyperparamsEnum
                          THEN replace ELSE NoneV,
              result |-> FALSE]
    IN  /\ NoCallYet
        /\ IF ~check_min_api_version(<<2, 9>>)
           THEN RaiseNotSupported("edit_hyper_params")
           ELSE IF m.raised # ""
           THEN /\ hp_call' = c
                /\ UNCHANGED <<api_version, offline, offline_data, sent, reloads>>
           ELSE IF offline
           THEN /\ offline_data' = dict_update(offline_data, m.props, 1)
                /\ hp_call' = [c EXCEPT !.result = TRUE]
                /\ UNCHANGED <<api_version, offline, sent, reloads>>
           ELSE /\ sent' = sent + 1
                /\ reloads' = IF res_ok THEN reloads + 1 ELSE reloads
                /\ hp_call' = [c EXCEPT !.requested = TRUE, !.result = res_ok]
                /\ UNCHANGED <<api_version, offline, offline_data>>
        /\ UNCHANGED <<patchVars, regVars, wfhVars, thrVars, cbVars>>

\* the values delete_hyper_params is given, by the section and name get_key
\* finds in them
DeleteValues == [section : {Empty, <<"Args">>}, name : {Empty, <<"lr">>, <<"bs">>}]

\* get_key: not all(key)
key_missing(value) == value.section = Empty \/ value.name = Empty

\* HyperParams.delete_hyper_params
delete_hyper_params(iterables, res_ok) ==
    LET c == [fn |-> "delete_hyper_params", raised |-> "",
              requested |-> FALSE,
              keys |-> {iterables[i] : i \in DOMAIN iterables},
              result |-> FALSE]
    IN  /\ NoCallYet
        /\ IF ~check_min_api_version(<<2, 9>>)
           THEN RaiseNotSupported("delete_hyper_params")
           ELSE IF \E i \in DOMAIN iterables : key_missing(iterables[i])
           THEN /\ hp_call' = [c EXCEPT !.raised = "Missing section or name",
                                        !.keys = {}]
                /\ UNCHANGED <<api_version, offline, offline_data, sent, reloads>>
           ELSE /\ sent' = sent + 1
                /\ reloads' = IF res_ok THEN reloads + 1 ELSE reloads
                /\ hp_call' = [c EXCEPT !.requested = TRUE, !.result = res_ok]
                /\ UNCHANGED <<api_version, offline, offline_data>>
        /\ UNCHANGED <<patchVars, regVars, wfhVars, thrVars, cbVars>>

\* the hyper-parameters the server holds, by section and name
ServerItems ==
    {[section |-> <<"Args">>, name |-> <<"lr">>],
     [section |-> <<"General">>, name |-> <<"bs">>]}

OtherEntry ==
    [task |-> "other",
     hyperparams |-> <<[section |-> <<"Other">>, name |-> <<"lr">>]>>]

\* res.response.params: nothing, the entry of this task, or the entry of
\* another task before it
ResponseParams ==
    {<<>>} \cup
    UNION {{<<[task |-> "this", hyperparams |-> hs]>>,
            <<OtherEntry, [task |-> "this", hyperparams |-> hs]>>} :
              hs \in SeqUpTo(ServerItems, MaxItems)}

\* sections: None, or the sections to return
SectionsArgs == {<<>>, << <<"Args">> >>}

\* selector: None, a callable that selects the items named lr, a callable
\* that raises
SelectorArgs == {NoneV, "lr_only", "raises"}

\* projector: None, or a callable
ProjectorArgs == {NoneV, "project"}

\* the item was dropped by "continue"
filtered_out(item, sections, selector) ==
    \/ sections # <<>> /\ \A i \in DOMAIN sections : sections[i] # item.section
    \/ selector = "lr_only" /\ item.name # <<"lr">>

\* the try block raised: the selector, or .get of an object without it
item_failed(item, sections, selector, return_obj, has_get) ==
    \/ /\ ~(sections # <<>> /\ \A i \in DOMAIN sections : sections[i] # item.section)
       /\ selector = "raises"
    \/ return_obj /\ ~has_get

\* tasks.ParamsItem(): no field is given, every field is None
params_item_empty(item) ==
    [kind |-> "ParamsItem", section |-> Empty, name |-> Empty]

\* the item after "if return_obj: item = tasks.ParamsItem()"
item_obj(item, return_obj) ==
    IF return_obj THEN params_item_empty(item)
    ELSE [kind |-> "dict", section |-> item.section, name |-> item.name]

\* item if not projector else projector(item)
projected(it, projector) ==
    IF projector = NoneV THEN it ELSE [it EXCEPT !.kind = "projected"]

RECURSIVE get_items(_, _, _, _, _, _, _, _)
\* the loop over the hyperparams of one entry
get_items(items, j, hyperparams, sections, selector, projector, return_obj, has_get) ==
    IF j > Len(items) THEN hyperparams
    ELSE LET item == items[j]
             it == item_obj(item, return_obj)
             next ==
                IF filtered_out(item, sections, selector)
                   \/ item_failed(item, sections, selector, return_obj, has_get)
                THEN hyperparams
                ELSE props_update(hyperparams, <<it.section, it.name>>,
                                  projected(it, projector))
         IN  get_items(items, j + 1, next, sections, selector, projector,
                       return_obj, has_get)

RECURSIVE get_entries(_, _, _, _, _, _, _, _)
\* the loop over res.response.params: the entries of this task
get_entries(params, i, hyperparams, sections, selector, projector, return_obj, has_get) ==
    IF i > Len(params) THEN hyperparams
    ELSE get_entries(params, i + 1,
                     IF params[i].task = "this"
                     THEN get_items(params[i].hyperparams, 1, hyperparams,
                                    sections, selector, projector, return_obj,
                                    has_get)
                     ELSE hyperparams,
                     sections, selector, projector, return_obj, has_get)

\* what get_hyper_params returns
get_result(res_ok, params, sections, selector, projector, return_obj, has_get) ==
    IF res_ok /\ params # <<>>
    THEN get_entries(params, 1, <<>>, sections, selector, projector,
                     return_obj, has_get)
    ELSE <<>>

\* HyperParams.get_hyper_params; has_get: a tasks.ParamsItem has the get
\* method of a dict
get_hyper_params(sections, selector, projector, return_obj, res_ok, params, has_get) ==
    /\ NoCallYet
    /\ IF ~check_min_api_version(<<2, 9>>)
       THEN RaiseNotSupported("get_hyper_params")
       ELSE /\ sent' = sent + 1
            /\ hp_call' =
                 [fn |-> "get_hyper_params", raised |-> "", requested |-> TRUE,
                  sections |-> sections, selector |-> selector,
                  projector |-> projector, return_obj |-> return_obj,
                  res_ok |-> res_ok, params |-> params, has_get |-> has_get,
                  result |-> get_result(res_ok, params, sections, selector,
                                        projector, return_obj, has_get)]
            /\ UNCHANGED <<api_version, offline, offline_data, reloads>>
    /\ UNCHANGED <<patchVars, regVars, wfhVars, thrVars, cbVars>>

\* the properties an offline task may have saved before
SavedBefore ==
    {<<>>,
     <<[key |-> <<"lr">>,
        item |-> [section |-> <<"D">>, name |-> <<"lr">>, from |-> 1]]>>}

\* only an offline task has saved properties
HpInit ==
    /\ api_version \in ApiVersions
    /\ offline \in BOOLEAN
    /\ offline_data \in IF offline THEN SavedBefore ELSE {<<>>}
    /\ sent = 0
    /\ reloads = 0
    /\ hp_call = NoHpCall
    /\ PatchIdle
    /\ RegistryIdle
    /\ WfhIdle
    /\ ThrIdle
    /\ CbIdle

HpNext ==
    \/ \E params \in ResponseParams :
          \E sections \in SectionsArgs, selector \in SelectorArgs,
             projector \in ProjectorArgs, return_obj \in BOOLEAN,
             res_ok \in BOOLEAN, has_get \in BOOLEAN :
             get_hyper_params(sections, selector, projector, return_obj,
                              res_ok, params, has_get)
    \/ \E iterables \in ListIterables :
          \E replace \in {"section", "bogus"},
             default_section \in DefaultSections,
             force_section \in ForceSections, res_ok \in BOOLEAN :
             edit_hyper_params(iterables, FALSE, replace, default_section,
                               force_section, res_ok)
    \/ \E iterables \in DictIterables :
          \E replace \in {"section", "bogus"},
             default_section \in DefaultSections,
             force_section \in ForceSections, res_ok \in BOOLEAN :
             edit_hyper_params(iterables, TRUE, replace, default_section,
                               force_section, res_ok)
    \/ \E iterables \in SeqUpTo(DeleteValues, MaxItems), res_ok \in BOOLEAN :
          delete_hyper_params(iterables, res_ok)

HpSpec == HpInit /\ [][HpNext]_vars

----------------------------------------------------------------------------
(* Claims about HyperParams                                                *)

\* the server API version is below 2.9
Below_2_9 == api_version[1] < 2 \/ (api_version[1] = 2 /\ api_version[2] < 9)

\* C11: on a server whose API version is below 2.9, get_hyper_params,
\* edit_hyper_params and delete_hyper_params raise
\* ValueError("Not supported by server"), and the call sends no request to
\* the session, does not reload the task and leaves the offline data alone.
C11_NotSupported ==
    [][hp_call.fn = "none" /\ hp_call'.fn # "none" /\ Below_2_9 =>
          /\ hp_call'.raised = NotSupported
          /\ ~hp_call'.requested
          /\ sent' = sent
          /\ reloads' = reloads
          /\ offline_data' = offline_data]_vars

\* edit_hyper_params of an offline task with saved properties raised on a
\* server of version 1.12
C11_Witness ==
    /\ hp_call.fn = "edit_hyper_params"
    /\ hp_call.raised = NotSupported
    /\ api_version = <<1, 12>>
    /\ offline
    /\ offline_data # <<>>

\* an edit_hyper_params call made its items and sent them
EditSent ==
    /\ hp_call.fn = "edit_hyper_params"
    /\ hp_call.raised = ""
    /\ hp_call.requested

\* the value item k of the request was made from
ValueOf(k) == hp_call.values[hp_call.items[k].from].value

\* the name item k was given with: the key of the dict, else its own name
NameOf(k) ==
    LET e == hp_call.values[hp_call.items[k].from]
    IN  IF e.key # Empty THEN e.key ELSE e.value.name

\* force_section when it is given, otherwise the section of the value when
\* it has one, otherwise default_section
SectionFor(k) ==
    IF hp_call.force_section # Empty THEN hp_call.force_section
    ELSE IF ValueOf(k).section # Empty THEN ValueOf(k).section
    ELSE hp_call.default_section

\* the API version is at least 2.9 and below 2.11
Escaping == api_version[1] = 2 /\ api_version[2] \in {9, 10}

\* v as it is sent: '_' before an unsafe v while escaping, v otherwise
AsSent(v) == IF Escaping /\ v \in UNSAFE_NAMES_2_10 THEN <<"_">> \o v ELSE v

\* C12 as stated: the section of every item sent is force_section when it is
\* given, otherwise the item's own section when it has one, otherwise
\* default_section.
C12_SectionAsGiven ==
    EditSent =>
        \A k \in DOMAIN hp_call.items : hp_call.items[k].section = SectionFor(k)

\* C12: the section of every item sent is made of force_section when it is
\* given, otherwise of the item's own section when it has one, otherwise of
\* default_section: it is that section, with '_' before it when the section
\* is in UNSAFE_NAMES_2_10 and the API version is below 2.11.
C12_SectionChoice ==
    EditSent =>
        \A k \in DOMAIN hp_call.items :
            hp_call.items[k].section = AsSent(SectionFor(k))

\* on a 2.10 server a value with a section of its own was sent under the
\* forced section "type", as "_type"
C12_Witness ==
    /\ EditSent
    /\ api_version = <<2, 10>>
    /\ hp_call.force_section = <<"type">>
    /\ \E k \in DOMAIN hp_call.items :
          /\ ValueOf(k).section = <<"all">>
          /\ hp_call.items[k].section = <<"_", "type">>

\* C13: at an API version of at least 2.9 and below 2.11 edit_hyper_params
\* sends every section and every name that is in UNSAFE_NAMES_2_10 as '_'
\* followed by it and every other section and name unchanged; at 2.11 and
\* above no section and no name is changed.
C13_EscapeUnsafe ==
    EditSent =>
        \A k \in DOMAIN hp_call.items :
            LET item == hp_call.items[k]
            IN  IF Escaping
                THEN /\ item.section =
                           IF SectionFor(k) \in UNSAFE_NAMES_2_10
                           THEN <<"_">> \o SectionFor(k) ELSE SectionFor(k)
                     /\ item.name =
                           IF NameOf(k) \in UNSAFE_NAMES_2_10
                           THEN <<"_">> \o NameOf(k) ELSE NameOf(k)
                ELSE /\ item.section = SectionFor(k)
                     /\ item.name = NameOf(k)

\* on a 2.10 server the name "in" was sent as "_in" and the name "lr" as it
\* is, in the safe section "D"
C13_Witness ==
    /\ EditSent
    /\ api_version = <<2, 10>>
    /\ \E k, l \in DOMAIN hp_call.items :
          /\ NameOf(k) = <<"in">> /\ hp_call.items[k].name = <<"_", "in">>
          /\ NameOf(l) = <<"lr">> /\ hp_call.items[l].name = <<"lr">>
          /\ hp_call.items[l].section = <<"D">>

\* the (section, name) keys of a returned dictionary
KeysOf(hyperparams) == {hyperparams[j].key : j \in DOMAIN hyperparams}

\* C14: get_hyper_params with return_obj=True returns the same (section,
\* name) keys as with return_obj=False, and without a projector the value
\* under every key is a tasks.ParamsItem that carries the section and the
\* name of that hyper-parameter.
C14_ReturnObj ==
    hp_call.fn = "get_hyper_params" /\ hp_call.raised = "" /\ hp_call.return_obj =>
        /\ KeysOf(hp_call.result) =
              KeysOf(get_result(hp_call.res_ok, hp_call.params,
                                hp_call.sections, hp_call.selector,
                                hp_call.projector, FALSE, hp_call.has_get))
        /\ hp_call.projector = NoneV =>
              \A j \in DOMAIN hp_call.result :
                  /\ hp_call.result[j].item.kind = "ParamsItem"
                  /\ hp_call.result[j].item.section = hp_call.result[j].key[1]
                  /\ hp_call.result[j].item.name = hp_call.result[j].key[2]

----------------------------------------------------------------------------
(* More claims about restore_weights_file and create_output_model          *)

\* thread t is not inside a call
Outside(t) == call[t].pc \in {"idle", "returned"}

\* C15: WeightsFileHandler._model_store_lookup_lock is released on every
\* exit path of restore_weights_file and create_output_model: a thread that
\* has returned from them does not hold the lock, the lock changes hands
\* only where a thread acquires it or where its holder releases it, and a
\* call that returns before it acquired the lock leaves the lock alone.
C15_LockReleased ==
    /\ [](\A t \in Threads : Outside(t) => model_store_lookup_lock # t)
    /\ [][\A t \in Threads :
            call'[t] # call[t] =>
               IF call[t].pc = "release"
               THEN model_store_lookup_lock = t /\ model_store_lookup_lock' = NoneV
               ELSE IF call[t].pc = "acquire"
               THEN model_store_lookup_lock = NoneV /\ model_store_lookup_lock' = t
               ELSE model_store_lookup_lock' = model_store_lookup_lock]_vars

\* t1 has returned from a create_output_model call that raised inside the
\* lock while t2, which waited for the lock, holds it now
C15_Witness ==
    /\ call["t1"].pc = "returned"
    /\ call["t1"].op = "create"
    /\ call["t1"].raised
    /\ model_store_lookup_lock = "t2"

----------------------------------------------------------------------------
(* More claims about _patched_call                                         *)

\* C16: the recursion flag never leaks.  A thread outside every wrapper has
\* no ident in _recursion_guard, also when the outermost call ended with the
\* exception of patched_fn, which goes on to the caller; so the outermost
\* call of a thread always goes through patched_fn.  A nested call that
\* bypassed to original_fn leaves the flag of the outer call set when it
\* ends.
C16_FlagNeverLeaks ==
    /\ [](\A t \in Threads :
            /\ stack[t] = <<>> => t \notin recursion_guard
            /\ stack[t] # <<>> =>
                  stack[t][1].pc \in {"check", "set", "patched_fn"})
    /\ [][\A t \in Threads :
            /\ stack[t] # <<>> /\ stack'[t] = <<>> =>
                  /\ t \notin recursion_guard'
                  /\ exc'[t] = exc[t]
            /\ Len(stack[t]) > 1 /\ Len(stack'[t]) < Len(stack[t])
               /\ Top(t).pc = "original_fn" =>
                  t \in recursion_guard /\ t \in recursion_guard']_vars

\* the exception of t1's outermost patched_fn is on its way to the caller
\* and t1's flag is gone, while t2, inside its patched_fn, has its own
C16_Witness ==
    /\ stack["t1"] = <<>>
    /\ exc["t1"]
    /\ "t1" \notin recursion_guard
    /\ "t2" \in recursion_guard
    /\ stack["t2"] # <<>>

----------------------------------------------------------------------------
(* binding/frameworks/catboost_bind.py: PatchCatBoostModelIO               *)
(*                                                                         *)
(* update_current_task and _patch_model_io are called one after the other, *)
(* by the user, by Task.init or as the post-import hook; a call runs line  *)
(* by line.  catboost is imported between calls: sys.modules then holds a  *)
(* catboost with all four classes, or an older one without CatBoostRanker, *)
(* for which the import of line 35 raises ImportError.                     *)

\* the assignments of lines 42-48, in their order
WrapOrder ==
    <<"CatBoost.save_model", "CatBoost.load_model", "CatBoost.fit",
      "CatBoostClassifier.fit", "CatBoostRegressor.fit", "CatBoostRanker.fit">>

CatBoostModules == {"catboost", "catboost_old"}

\* the places of a call inside _patch_model_io
PatchPcs == {"check_patched", "check_modules", "set_patched", "import",
             "wrap", "except"}

CbCanCall == cb_call.pc \in {"idle", "done"}

already_patched_never(flag) == FALSE

\* line 28, "if PatchCatBoostModelIO.__patched"
already_patched(flag) == flag

\* _patch_model_io returns, or raises when raised is set: update_current_task
\* goes on to line 24, the other callers are done
PatchReturn(raised) ==
    [cb_call EXCEPT !.raised = raised,
                    !.pc = IF cb_call.fn = "update_current_task" /\ ~raised
                           THEN "add_on_import" ELSE "done",
                    !.i = 1]

\* lines 20-23 of update_current_task
update_current_task(task) ==
    /\ CbCanCall
    /\ current_task' = task
    /\ cb_call' = [fn |-> "update_current_task", raised |-> FALSE, i |-> 1,
                   pc |-> IF task = NoneV THEN "done" ELSE "check_patched"]
    /\ UNCHANGED <<sys_modules, patched, wraps, on_import,
                   patchVars, regVars, wfhVars, thrVars, hpVars>>

\* _patch_model_io is called directly
patch_model_io_call ==
    /\ CbCanCall
    /\ cb_call' = [fn |-> "_patch_model_io", raised |-> FALSE, i |-> 1,
                   pc |-> "check_patched"]
    /\ UNCHANGED <<sys_modules, patched, wraps, current_task, on_import,
                   patchVars, regVars, wfhVars, thrVars, hpVars>>

\* PostImportHookPatching calls _patch_model_io: catboost is imported and the
\* hook was added
post_import_hook ==
    /\ CbCanCall
    /\ on_import
    /\ sys_modules # NoneV
    /\ cb_call' = [fn |-> "post_import_hook", raised |-> FALSE, i |-> 1,
                   pc |-> "check_patched"]
    /\ UNCHANGED <<sys_modules, patched, wraps, current_task, on_import,
                   patchVars, regVars, wfhVars, thrVars, hpVars>>

\* the program imports catboost
import_catboost(module) ==
    /\ CbCanCall
    /\ sys_modules = NoneV
    /\ sys_modules' = module
    /\ UNCHANGED <<patched, wraps, current_task, on_import, cb_call,
                   patchVars, regVars, wfhVars, thrVars, hpVars>>

\* lines 28-29
patch_check_patched ==
    /\ cb_call.pc = "check_patched"
    /\ cb_call' = IF already_patched(patched) THEN PatchReturn(FALSE)
                  ELSE [cb_call EXCEPT !.pc = "check_modules"]
    /\ UNCHANGED <<sys_modules, patched, wraps, current_task, on_import,
                   patchVars, regVars, wfhVars, thrVars, hpVars>>

\* lines 30-31
patch_check_modules ==
    /\ cb_call.pc = "check_modules"
    /\ cb_call' = IF sys_modules = NoneV THEN PatchReturn(FALSE)
                  ELSE [cb_call EXCEPT !.pc = "set_patched"]
    /\ UNCHANGED <<sys_modules, patched, wraps, current_task, on_import,
                   patchVars, regVars, wfhVars, thrVars, hpVars>>

\* line 32
patch_set_patched ==
    /\ cb_call.pc = "set_patched"
    /\ patched' = TRUE
    /\ cb_call' = [cb_call EXCEPT !.pc = "import"]
    /\ UNCHANGED <<sys_modules, wraps, current_task, on_import,
                   patchVars, regVars, wfhVars, thrVars, hpVars>>

\* lines 35-40: "from catboost import ..." raises when a class is missing
patch_import ==
    /\ cb_call.pc = "import"
    /\ cb_call' = [cb_call EXCEPT !.pc = IF sys_modules = "catboost"
                                         THEN "wrap" ELSE "except"]
    /\ UNCHANGED <<sys_modules, patched, wraps, current_task, on_import,
                   patchVars, regVars, wfhVars, thrVars, hpVars>>

\* one of the lines 42-48: a method is replaced by _patched_call of itself
patch_wrap ==
    /\ cb_call.pc = "wrap"
    /\ wraps' = [wraps EXCEPT ![WrapOrder[cb_call.i]] = @ + 1]
    /\ cb_call' = IF cb_call.i = Len(WrapOrder) THEN PatchReturn(FALSE)
                  ELSE [cb_call EXCEPT !.i = @ + 1]
    /\ UNCHANGED <<sys_modules, patched, current_task, on_import,
                   patchVars, regVars, wfhVars, thrVars, hpVars>>

\* lines 49-51: the failure is reported through the logger of _current_task;
\* without a task "None.get_logger()" raises out of _patch_model_io
patch_except ==
    /\ cb_call.pc = "except"
    /\ cb_call' = PatchReturn(current_task = NoneV)
    /\ UNCHANGED <<sys_modules, patched, wraps, current_task, on_import,
                   patchVars, regVars, wfhVars, thrVars, hpVars>>

\* line 24: PostImportHookPatching.add_on_import("catboost", _patch_model_io)
add_on_import ==
    /\ cb_call.pc = "add_on_import"
    /\ on_import' = TRUE
    /\ cb_call' = [cb_call EXCEPT !.pc = "done"]
    /\ UNCHANGED <<sys_modules, patched, wraps, current_task,
                   patchVars, regVars, wfhVars, thrVars, hpVars>>

CatBoostInit ==
    /\ CbIdle
    /\ PatchIdle
    /\ RegistryIdle
    /\ WfhIdle
    /\ ThrIdle
    /\ HpIdle

CatBoostNext ==
    \/ \E task \in TaskArgs : update_current_task(task)
    \/ patch_model_io_call
    \/ post_import_hook
    \/ \E module \in CatBoostModules : import_catboost(module)
    \/ patch_check_patched
    \/ patch_check_modules
    \/ patch_set_patched
    \/ patch_import
    \/ patch_wrap
    \/ patch_except
    \/ add_on_import

CatBoostSpec == CatBoostInit /\ [][CatBoostNext]_vars

----------------------------------------------------------------------------
(* Claims about PatchCatBoostModelIO                                       *)

\* the step ends the run of _patch_model_io
PatchEnds == cb_call.pc \in PatchPcs /\ cb_call'.pc \notin PatchPcs

====
